---- MODULE Spec2Model ----
(***************************************************************************)
(* Model of the analyze-deps generator of nx-opdep-plugin                  *)
(* (packages/opdep/src/generators/analyze-deps/generator.ts, the variant   *)
(* that starts at line 315 of the file).                                    *)
(*                                                                         *)
(* Strings of the program (module specifiers, paths, alias patterns, names)*)
(* are sequences of one-character strings, so that startsWith, replace,    *)
(* slice, path.resolve, path.join and path.dirname are computed the way    *)
(* the program computes them.                                              *)
(***************************************************************************)
EXTENDS Integers, Sequences, FiniteSets, TLC

(***************************************************************************)
(* String and path primitives (JavaScript String, node:path).              *)
(***************************************************************************)

\* s.startsWith(p)
StartsWith(s, p) ==
  /\ Len(p) <= Len(s)
  /\ SubSeq(s, 1, Len(p)) = p

\* s.endsWith(p)
EndsWith(s, p) ==
  /\ Len(p) <= Len(s)
  /\ SubSeq(s, Len(s) - Len(p) + 1, Len(s)) = p

\* s.slice(n)
Slice(s, n) == SubSeq(s, n + 1, Len(s))

\* s.indexOf(p), 1-based; 0 when p does not occur in s
RECURSIVE IndexFrom(_, _, _)
IndexFrom(s, p, i) ==
  IF i + Len(p) - 1 > Len(s) THEN 0
  ELSE IF SubSeq(s, i, i + Len(p) - 1) = p THEN i
  ELSE IndexFrom(s, p, i + 1)
IndexOf(s, p) == IndexFrom(s, p, 1)

\* s.replace(p, r) with a string pattern: the first occurrence only
Replace(s, p, r) ==
  LET i == IndexOf(s, p)
  IN IF i = 0 THEN s
     ELSE SubSeq(s, 1, i - 1) \o r \o SubSeq(s, i + Len(p), Len(s))

\* s.split('/')
RECURSIVE Split(_)
Split(s) ==
  LET i == IndexOf(s, <<"/">>)
  IN IF i = 0 THEN <<s>>
     ELSE <<SubSeq(s, 1, i - 1)>> \o Split(SubSeq(s, i + 1, Len(s)))

\* segs.join('/')
RECURSIVE JoinSegs(_)
JoinSegs(segs) ==
  IF Len(segs) = 0 THEN <<>>
  ELSE IF Len(segs) = 1 THEN segs[1]
  ELSE segs[1] \o <<"/">> \o JoinSegs(Tail(segs))

\* path normalisation of a list of segments: '' and '.' are dropped, '..'
\* removes the segment before it (and is dropped at the root)
RECURSIVE NormSegs(_, _)
NormSegs(done, rest) ==
  IF Len(rest) = 0 THEN done
  ELSE LET h == Head(rest)
       IN IF h = <<>> \/ h = <<".">> THEN NormSegs(done, Tail(rest))
          ELSE IF h = <<".", ".">>
               THEN NormSegs(IF Len(done) = 0 THEN done
                             ELSE SubSeq(done, 1, Len(done) - 1), Tail(rest))
               ELSE NormSegs(Append(done, h), Tail(rest))

\* process.cwd(): the workspace root the generator runs in
Cwd == <<"/", "w">>

\* path.isAbsolute(p)
IsAbsolute(p) == StartsWith(p, <<"/">>)

\* path.resolve(base, p): an absolute, normalised path
PathResolve(base, p) ==
  LET b   == IF IsAbsolute(base) THEN base ELSE Cwd \o <<"/">> \o base
      raw == IF IsAbsolute(p) THEN p ELSE b \o <<"/">> \o p
  IN <<"/">> \o JoinSegs(NormSegs(<<>>, Split(raw)))

\* path.join(a, b) for an absolute a
PathJoin(a, b) ==
  LET segs == NormSegs(<<>>, Split(a \o <<"/">> \o b))
  IN IF IsAbsolute(a) THEN <<"/">> \o JoinSegs(segs)
     ELSE IF Len(segs) = 0 THEN <<".">> ELSE JoinSegs(segs)

\* path.dirname(p)
PathDirname(p) ==
  LET segs == Split(p)
  IN IF Len(segs) <= 1 THEN <<".">>
     ELSE LET d == JoinSegs(SubSeq(segs, 1, Len(segs) - 1))
          IN IF d = <<>> THEN <<"/">> ELSE d

(***************************************************************************)
(* Names of the modelled workspace.                                        *)
(***************************************************************************)

DotTs   == <<".", "t", "s">>
DotTsx  == <<".", "t", "s", "x">>

\* project roots as the project registry gives them (relative to the workspace)
RootP == <<"p">>
RootL == <<"l">>

\* source files
FileA == <<"/", "w", "/", "p", "/", "a", ".", "t", "s">>
FileB == <<"/", "w", "/", "p", "/", "b", ".", "t", "s">>
FileI == <<"/", "w", "/", "l", "/", "i", ".", "t", "s">>
\* test files of the project and of the library
FileSpecA == <<"/", "w", "/", "p", "/", "a", ".", "s", "p", "e", "c", ".", "t", "s">>
FileTestI == <<"/", "w", "/", "l", "/", "i", ".", "t", "e", "s", "t", ".", "t", "s", "x">>

\* module specifiers
SpX      == <<"x">>
SpXS     == <<"x", "/", "s">>
SpY      == <<"y">>
SpZ      == <<"z">>
SpDotX   == <<".", "/", "x">>
SpDotA   == <<".", "/", "a">>
SpDotB   == <<".", "/", "b">>
SpUpLI   == <<".", ".", "/", "l", "/", "i">>
SpAliasA == <<"@", "a", "/", "a">>
SpAliasB == <<"@", "a", "/", "b">>
SpLib    == <<"@", "l">>
SpLibU   == <<"@", "l", "/", "u">>
\* specifiers that stand for the test file a.spec.ts
SpAliasSpec == <<"@", "a", "/", "a", ".", "s", "p", "e", "c">>
SpDotSpec   == <<".", "/", "a", ".", "s", "p", "e", "c">>
\* a scoped package whose name begins with the characters of the alias
\* prefix '@a'
SpScoped == <<"@", "a", "b", "/", "c">>
\* a specifier that is an absolute path
SpAbsB   == <<"/", "w", "/", "p", "/", "b">>

\* project names given as the option projectName; q is not registered
NameP == <<"p">>
NameL == <<"l">>
NameQ == <<"q">>

\* the option outputPath when it is given
OutJson == <<"o", ".", "j", "s", "o", "n">>

\* a module reference: an import declaration, an export declaration with a
\* module specifier, a namespace export (export * from), or a require('...')
\* call expression, of kind "import", "export", "star" and "require"; an
\* import declaration with a default or namespace binding and no named
\* bindings (import d from 's', import * as n from 's') is of kind "default"
Ref(spec, kind, names) == [spec |-> spec, kind |-> kind, names |-> names]

\* package.json
Dep(name, range) == [name |-> name, range |-> range]
Manifest1 ==
  [exists |-> TRUE, name |-> "p", version |-> "1.0.0",
   dependencies    |-> <<Dep(SpX, "^1"), Dep(SpAliasB, "^2"), Dep(SpZ, "^3")>>,
   devDependencies |-> <<Dep(SpY, "^4")>>]
Manifest2 ==
  [exists |-> TRUE, name |-> "p", version |-> "1.0.0",
   dependencies    |-> <<Dep(SpZ, "^3"), Dep(SpX, "^1")>>,
   devDependencies |-> <<Dep(SpY, "^4"), Dep(SpX, "^5")>>]
\* the project's package.json after it was edited between two runs
Manifest3 ==
  [exists |-> TRUE, name |-> "p", version |-> "2.0.0",
   dependencies    |-> <<Dep(SpX, "^7"), Dep(SpY, "^8")>>,
   devDependencies |-> <<>>]
\* a package.json whose dependency x has the empty range "", which like "*"
\* accepts any version
Manifest4 ==
  [exists |-> TRUE, name |-> "p", version |-> "1.0.0",
   dependencies    |-> <<Dep(SpX, "")>>,
   devDependencies |-> <<Dep(SpX, "^5"), Dep(SpY, "^4")>>]
\* the package.json of the library l
ManifestLib ==
  [exists |-> TRUE, name |-> "l", version |-> "0.1.0",
   dependencies    |-> <<Dep(SpX, "^2")>>,
   devDependencies |-> <<Dep(SpY, "^4")>>]
\* the package.json at the workspace root
ManifestRoot ==
  [exists |-> TRUE, name |-> "w", version |-> "0.0.1",
   dependencies    |-> <<Dep(SpX, "^9"), Dep(SpZ, "^3")>>,
   devDependencies |-> <<Dep(SpY, "^6")>>]

\* tsconfig files of the tree, in the order tree.children lists them
NoExtends == <<>>
\* parses: JSON.parse accepts the file; tsParses: the TypeScript configuration
\* reader, which allows comments, accepts it
TsConfigPlain ==
  [path |-> <<"p", "/", "t", "s", "c", "o", "n", "f", "i", "g", ".", "j", "s", "o", "n">>,
   parses |-> TRUE, tsParses |-> TRUE, extends |-> NoExtends, paths |-> <<>>]
TsConfigAlias ==
  [path |-> <<"p", "/", "t", "s", "c", "o", "n", "f", "i", "g", ".", "j", "s", "o", "n">>,
   parses |-> TRUE, tsParses |-> TRUE, extends |-> NoExtends,
   paths |-> <<[key |-> <<"@", "a", "/", "*">>, targets |-> << <<"*">> >>]>>]
\* the tsconfig.json of the library l
TsConfigLib ==
  [path |-> <<"l", "/", "t", "s", "c", "o", "n", "f", "i", "g", ".", "j", "s", "o", "n">>,
   parses |-> TRUE, tsParses |-> TRUE, extends |-> NoExtends, paths |-> <<>>]
\* the same file with a comment in it
TsConfigComment == [TsConfigAlias EXCEPT !.parses = FALSE]
\* the same file truncated
TsConfigBroken == [TsConfigAlias EXCEPT !.parses = FALSE, !.tsParses = FALSE]

\* an alias key that is also the name of the workspace library l
TsConfigAliasLib ==
  [TsConfigAlias EXCEPT
     !.paths = <<[key |-> <<"@", "l", "/", "*">>, targets |-> << <<"*">> >>]>>]
\* two alias keys matching '@a/b', the wildcard key declared first, and the
\* same two keys in the other order
TsConfigTwoAliases ==
  [TsConfigAlias EXCEPT
     !.paths = <<[key |-> <<"@", "a", "/", "*">>, targets |-> << <<"*">> >>],
                 [key |-> <<"@", "a", "/", "b">>, targets |-> << <<"a">> >>]>>]
TsConfigTwoAliasesRev ==
  [TsConfigAlias EXCEPT
     !.paths = <<[key |-> <<"@", "a", "/", "b">>, targets |-> << <<"a">> >>],
                 [key |-> <<"@", "a", "/", "*">>, targets |-> << <<"*">> >>]>>]
\* p/tsconfig.json extending p/tsconfig.base.json, both with the key '@a/*'
TsConfigBase ==
  [path |-> <<"p", "/", "t", "s", "c", "o", "n", "f", "i", "g", ".", "b", "a", "s", "e", ".", "j", "s", "o", "n">>,
   parses |-> TRUE, tsParses |-> TRUE, extends |-> NoExtends,
   paths |-> <<[key |-> <<"@", "a", "/", "*">>, targets |-> << <<"x", "/", "*">> >>]>>]
TsConfigLocal ==
  [TsConfigAlias EXCEPT !.extends = <<".", "/", "t", "s", "c", "o", "n", "f", "i", "g", ".", "b", "a", "s", "e", ".", "j", "s", "o", "n">>]
\* p/tsconfig.json extending p/mid.json, which extends p/top.json, the only
\* one of the three with alias entries
TsConfigLeaf ==
  [TsConfigPlain EXCEPT !.extends = <<".", "/", "m", "i", "d", ".", "j", "s", "o", "n">>]
TsConfigMid ==
  [path |-> <<"p", "/", "m", "i", "d", ".", "j", "s", "o", "n">>,
   parses |-> TRUE, tsParses |-> TRUE, extends |-> <<".", "/", "t", "o", "p", ".", "j", "s", "o", "n">>,
   paths |-> <<>>]
TsConfigTop ==
  [path |-> <<"p", "/", "t", "o", "p", ".", "j", "s", "o", "n">>,
   parses |-> TRUE, tsParses |-> TRUE, extends |-> NoExtends,
   paths |-> <<[key |-> <<"@", "a", "/", "*">>, targets |-> << <<"*">> >>]>>]
\* p/tsconfig.app.json extending p/tsconfig.json
TsConfigApp ==
  [path |-> <<"p", "/", "t", "s", "c", "o", "n", "f", "i", "g", ".", "a", "p", "p", ".", "j", "s", "o", "n">>,
   parses |-> TRUE, tsParses |-> TRUE, extends |-> <<".", "/", "t", "s", "c", "o", "n", "f", "i", "g", ".", "j", "s", "o", "n">>,
   paths |-> <<[key |-> <<"@", "b", "/", "*">>, targets |-> << <<"*">> >>]>>]

\* the project registry (getProjects)
Registry ==
  << [name |-> NameP, root |-> RootP, projectType |-> "application"],
     [name |-> NameL, root |-> RootL, projectType |-> "library"] >>

(***************************************************************************)
(* Bounds of the input space.                                              *)
(***************************************************************************)

\* the largest number of import/export declarations of the entry module a.ts
MaxRefs == 2

\* the declarations a.ts is built from
RefPoolA ==
  { Ref(SpX, "import", {"u"}), Ref(SpX, "import", {"v"}), Ref(SpXS, "import", {"u"}),
    Ref(SpX, "export", {"u"}),
    Ref(SpDotX, "import", {"u"}), Ref(SpDotB, "import", {"u"}),
    Ref(SpUpLI, "import", {"u"}),
    Ref(SpAliasB, "import", {"u"}),
    Ref(SpLib, "import", {"u"}) }

RefSeqs(pool, n) == UNION { [1..k -> pool] : k \in 0..n }

\* a file that is not there
NoFile == [exists |-> FALSE]
Content(refs) == [exists |-> TRUE, refs |-> refs]

\* the contents b.ts can have
MenuB ==
  { NoFile,
    Content(<<Ref(SpDotA, "import", {"u"})>>),
    Content(<<Ref(SpAliasA, "import", {"u"}), Ref(SpX, "import", {"v"})>>),
    Content(<<Ref(SpXS, "import", {"u"}), Ref(SpY, "star", {})>>) }

\* the contents of the library file i.ts
MenuI ==
  { Content(<<Ref(SpX, "import", {"v"})>>),
    Content(<<Ref(SpX, "export", {"u"}), Ref(SpY, "import", {})>>),
    Content(<<Ref(SpLibU, "import", {"u"}), Ref(SpY, "import", {"w"})>>) }

SourceFile(path, c) ==
  IF c.exists THEN <<[path |-> path, refs |-> c.refs]>> ELSE <<>>

\* one input of a run: the options projectName and outputPath (<<>> when not
\* given), the file tree (source files, the package.json of the project p, of
\* the library l and of the workspace root, the tsconfig files) and the registry
Workspace(name, out, files, mp, ml, mr, configs) ==
  [projectName |-> name,
   outputPath |-> out,
   files |-> files,
   pkgProject |-> mp,
   pkgLib |-> ml,
   pkgRoot |-> mr,
   tsconfigs |-> configs,
   projects |-> Registry]

World(ra, cb, ci, m, c) ==
  Workspace(NameP, <<>>,
            SourceFile(FileA, Content(ra)) \o SourceFile(FileB, cb)
              \o SourceFile(FileI, ci),
            m, NoFile, NoFile, <<c>>)

\* the manifest and the alias configuration of the project
Setups ==
  { <<Manifest1, TsConfigAlias>>, <<Manifest1, TsConfigPlain>>,
    <<Manifest2, TsConfigAlias>> }

GraphWorlds ==
  { World(ra, cb, ci, mc[1], mc[2]) :
      ra \in RefSeqs(RefPoolA, MaxRefs), cb \in MenuB, ci \in MenuI, mc \in Setups }

\* the inputs with an anomaly: an unregistered project, an outputPath, a
\* manifest that is elsewhere or nowhere, a configuration file that is missing
\* or does not parse, a require call, a specifier that resolves to no file
AnomalyRefsA ==
  { <<>>,
    <<Ref(SpZ, "require", {})>>,
    <<Ref(SpX, "import", {"u"}), Ref(SpZ, "require", {})>>,
    <<Ref(SpAliasB, "import", {"u"}), Ref(SpDotB, "import", {"u"})>>,
    <<Ref(SpLib, "import", {"u"})>> }
ManifestPlaces ==
  { <<Manifest1, NoFile>>, <<NoFile, ManifestRoot>>, <<Manifest1, ManifestRoot>>,
    <<NoFile, NoFile>>, <<Manifest4, NoFile>> }
ConfigMenus ==
  { <<TsConfigAlias>>, <<>>, <<TsConfigComment>>, <<TsConfigBroken>> }
AnomalyWorlds ==
  { Workspace(n, o, SourceFile(FileA, Content(ra)) \o SourceFile(FileI, ci),
              mm[1], NoFile, mm[2], cs) :
      n \in {NameP, NameQ}, o \in {<<>>, OutJson}, ra \in AnomalyRefsA,
      ci \in {NoFile, Content(<<Ref(SpX, "import", {"v"})>>)},
      mm \in ManifestPlaces, cs \in ConfigMenus }

\* the inputs with several alias keys or several configuration layers, and
\* the specifiers they decide about
LayerRefsA ==
  { <<Ref(SpAliasB, "import", {"u"})>>,
    <<Ref(SpLibU, "import", {"u"}), Ref(SpX, "import", {"u"})>>,
    <<Ref(SpAbsB, "import", {"u"})>>,
    <<Ref(SpAliasA, "import", {"u"}), Ref(SpLib, "import", {"u"})>>,
    <<Ref(SpLib, "import", {"u"}), Ref(SpLibU, "import", {"v"})>>,
    <<Ref(SpZ, "default", {})>>,
    <<Ref(SpScoped, "import", {"u"})>> }
LayerMenus ==
  { <<TsConfigAliasLib>>, <<TsConfigTwoAliases>>, <<TsConfigTwoAliasesRev>>,
    <<TsConfigBase, TsConfigLocal>>, <<TsConfigLocal, TsConfigBase>>,
    <<TsConfigLeaf, TsConfigMid, TsConfigTop>>,
    <<TsConfigApp, TsConfigComment>>, <<TsConfigApp, TsConfigAlias>> }
LayerWorlds ==
  { Workspace(NameP, <<>>,
              SourceFile(FileA, Content(ra)) \o SourceFile(FileB, cb)
                \o SourceFile(FileI, Content(<<Ref(SpX, "import", {"v"})>>)),
              Manifest1, NoFile, NoFile, cs) :
      ra \in LayerRefsA,
      cb \in {NoFile, Content(<<Ref(SpY, "import", {"u"})>>)},
      cs \in LayerMenus }

\* the inputs with test files next to the source files: a.spec.ts imports z,
\* i.test.tsx imports y, and no other file does
TestRefsA ==
  { <<Ref(SpLib, "import", {"u"})>>,
    <<Ref(SpAliasSpec, "import", {"u"}), Ref(SpX, "import", {"u"})>>,
    <<Ref(SpDotSpec, "import", {"u"}), Ref(SpLibU, "import", {"u"})>> }
TestWorlds ==
  { Workspace(NameP, <<>>,
              SourceFile(FileA, Content(ra))
                \o SourceFile(FileSpecA, Content(<<Ref(SpZ, "import", {"u"})>>))
                \o SourceFile(FileI, Content(<<Ref(SpX, "import", {"v"})>>))
                \o SourceFile(FileTestI, Content(<<Ref(SpY, "import", {"u"})>>)),
              Manifest1, NoFile, NoFile, <<TsConfigAlias>>) :
      ra \in TestRefsA }

\* the length of a chain of modules, each importing the next through an alias
ChainLen == 52

\* the k-th module of the chain is /w/p/n…n.ts with k letters; it imports
\* '@a/n…n' with k + 1 letters, and the last one imports two packages
RECURSIVE ChainName(_)
ChainName(k) == IF k = 0 THEN <<>> ELSE <<"n">> \o ChainName(k - 1)
ChainFile(k) ==
  [path |-> <<"/", "w", "/", "p", "/">> \o ChainName(k) \o DotTs,
   refs |-> IF k < ChainLen
            THEN <<Ref(<<"@", "a", "/">> \o ChainName(k + 1), "import", {"u"})>>
            ELSE <<Ref(SpX, "import", {"u"}), Ref(SpY, "import", {"u"})>>]
ChainWorld ==
  Workspace(NameP, <<>>, [k \in 1..ChainLen |-> ChainFile(k)],
            Manifest1, NoFile, NoFile, <<TsConfigAlias>>)

Worlds ==
  GraphWorlds \cup AnomalyWorlds \cup LayerWorlds \cup TestWorlds \cup {ChainWorld}

\* the module graphs that are analysed in several enumeration orders, and
\* the number of orders tried on each
MaxOrders == 2
OrderPool ==
  { Ref(SpX, "import", {"u"}), Ref(SpX, "import", {"v"}), Ref(SpY, "import", {"u"}),
    Ref(SpDotX, "import", {"u"}), Ref(SpAliasB, "import", {"u"}) }
OrderWorlds ==
  { World(ra, cb, NoFile, Manifest1, TsConfigAlias) :
      ra \in RefSeqs(OrderPool, MaxRefs),
      cb \in {NoFile, Content(<<Ref(SpX, "import", {"v"})>>)} }

\* the largest number of invocations of the generator in one session
MaxRuns == 3

\* the project names a session invokes the generator with
SessionNames == {NameP, NameL}

\* the workspaces a session of several invocations starts from
SessionWorlds ==
  { Workspace(n, <<>>, SourceFile(FileA, Content(ra)) \o SourceFile(FileI, ci),
              Manifest1, ml, ManifestRoot, <<TsConfigAlias, TsConfigLib>>) :
      n \in SessionNames,
      ra \in { <<Ref(SpX, "import", {"u"})>>,
               <<Ref(SpY, "import", {"w"}), Ref(SpLib, "import", {"u"})>> },
      ci \in { Content(<<Ref(SpX, "import", {"v"})>>),
               Content(<<Ref(SpZ, "import", {"u"}), Ref(SpDotX, "import", {"u"})>>) },
      ml \in {NoFile, ManifestLib} }

(***************************************************************************)
(* State.                                                                  *)
(***************************************************************************)

VARIABLES
  world,                \* the input: file tree, registry, options
  pc,                   \* "init", "walk", "done" (report written), "failed" (rejected)
  packageJson,          \* context.packageJson
  paths,                \* context.tsConfig.compilerOptions.paths, in key order
  tsConfigPath,         \* context.tsConfigPath
  stack,                \* the pending loops of analyzeImport calls, innermost first
  analyzedPaths,        \* the visited set
  externalImports,      \* analysis.externalImports: key -> set of names
  internalImports,      \* analysis.internalImports
  internalAliasImports, \* analysis.internalAliasImports
  walked,               \* the source files whose declarations analyzeImport was called for
  written,              \* the tree.write calls in order, each with the run that made
                        \* it, the runs suspended and the roots cached at that time
  dependencyCache,      \* the module-level manifest cache: projectRoot -> manifest
  steps,                \* the number of steps the run has taken
  error,                \* the error the run rejected with
  run,                  \* the number of the invocation, counted from 1
  awaiting              \* the invocations suspended in their await of formatFiles

vars == <<world, pc, packageJson, paths, tsConfigPath, stack, analyzedPaths,
          externalImports, internalImports, internalAliasImports, walked,
          written, dependencyCache, steps, error, run, awaiting>>

(***************************************************************************)
(* The file tree and the ts-morph projects.                                *)
(***************************************************************************)

\* Tree.normalize: a tree path is taken relative to the tree's root
TreePath(p) == JoinSegs(NormSegs(<<>>, Split(p)))

\* the exclusions left out
NothingExcluded(abs, path) == FALSE

\* the test-file and output-directory exclusions of addSourceFilesAtPaths
ExcludedFromGlob(abs, path) ==
  \/ StartsWith(path, abs \o <<"/", "n", "o", "d", "e", "_", "m", "o", "d", "u", "l", "e", "s", "/">>)
  \/ StartsWith(path, abs \o <<"/", "d", "i", "s", "t", "/">>)
  \/ StartsWith(path, abs \o <<"/", "b", "u", "i", "l", "d", "/">>)
  \/ EndsWith(path, <<".", "s", "p", "e", "c">> \o DotTs)
  \/ EndsWith(path, <<".", "t", "e", "s", "t">> \o DotTs)
  \/ EndsWith(path, <<".", "s", "p", "e", "c">> \o DotTsx)
  \/ EndsWith(path, <<".", "t", "e", "s", "t">> \o DotTsx)

\* whether addSourceFilesAtPaths of the project rooted at root adds path
InGlob(root, path) ==
  LET abs == PathResolve(Cwd, root)
  IN /\ StartsWith(path, abs \o <<"/">>)
     /\ EndsWith(path, DotTs) \/ EndsWith(path, DotTsx)
     /\ ~ExcludedFromGlob(abs, path)

\* the source files of the ts-morph Project built for root, in glob order
AddSourceFilesAtPaths(root) ==
  SelectSeq(world.files, LAMBDA f : InGlob(root, f.path))

\* project.getSourceFile(path): only a file added to that Project is found
HasSourceFile(root, path) ==
  \E i \in 1..Len(world.files) :
    world.files[i].path = path /\ InGlob(root, path)
GetSourceFile(root, path) ==
  world.files[CHOOSE i \in 1..Len(world.files) : world.files[i].path = path]

\* sourceFile.getImportDeclarations(), getExportDeclarations() and the
\* namespace exports among them
ImportDeclarations(f) ==
  SelectSeq(f.refs, LAMBDA r : r.kind \in {"import", "default"})
ExportDeclarations(f) == SelectSeq(f.refs, LAMBDA r : r.kind \in {"export", "star"})
ExportStars(f)        == SelectSeq(f.refs, LAMBDA r : r.kind = "star")

\* the analyzeImport calls a loop over declarations makes: each declaration
\* with the file it stands in and the Project that file belongs to
Calls(f, root, refs) ==
  [i \in 1..Len(refs) |->
     [spec |-> refs[i].spec, kind |-> refs[i].kind, names |-> refs[i].names,
      file |-> f.path, proj |-> root]]

\* the two loops run for every file of a project or library
RECURSIVE FileLoops(_, _)
FileLoops(files, root) ==
  IF Len(files) = 0 THEN <<>>
  ELSE Calls(Head(files), root, ImportDeclarations(Head(files)))
         \o Calls(Head(files), root, ExportDeclarations(Head(files)))
         \o FileLoops(Tail(files), root)

\* the three loops run for a file reached through a relative or alias import
RecursionLoops(f, root) ==
  Calls(f, root, ImportDeclarations(f))
    \o Calls(f, root, ExportDeclarations(f))
    \o Calls(f, root, ExportStars(f))

(***************************************************************************)
(* Manifest and alias configuration.                                       *)
(***************************************************************************)

\* the package.json file in a project's root directory, if the tree has one
PackageJsonAt(root) ==
  IF root = RootP THEN world.pkgProject
  ELSE IF root = RootL THEN world.pkgLib
  ELSE NoFile

\* findPackageJson: the project's package.json, else the workspace's
FindPackageJson(root) ==
  IF PackageJsonAt(root).exists THEN PackageJsonAt(root) ELSE world.pkgRoot

\* obj[name] of a dependencies object; "" stands for undefined
RangeOf(deps, name) ==
  LET hits == { i \in 1..Len(deps) : deps[i].name = name }
  IN IF hits = {} THEN ""
     ELSE deps[CHOOSE i \in hits : \A j \in hits : j <= i].range

\* the truthiness test applied to obj[name]
Truthy(range) == range # ""

\* getWorkspaceLibraries: the registry's projects of type library
GetWorkspaceLibraries ==
  SelectSeq(world.projects, LAMBDA c : c.projectType = "library")

Basename(p) == LET segs == Split(p) IN segs[Len(segs)]

\* /^tsconfig.*\.json$/ on an entry name
IsTsConfigName(name) ==
  /\ StartsWith(name, <<"t", "s", "c", "o", "n", "f", "i", "g">>)
  /\ EndsWith(name, <<".", "j", "s", "o", "n">>)
  /\ Len(name) >= 13

\* findAllTsConfigFiles: the root's own entries, then the whole subtree
\* (which lists the root's entries again)
FindAllTsConfigFiles(root) ==
  LET under == SelectSeq(world.tsconfigs, LAMBDA c :
                 StartsWith(c.path, root \o <<"/">>) /\ IsTsConfigName(Basename(c.path)))
      top   == SelectSeq(under, LAMBDA c : PathDirname(c.path) = root)
  IN [i \in 1..Len(top) |-> top[i].path] \o [i \in 1..Len(under) |-> under[i].path]

TreeHasConfig(p) ==
  \E i \in 1..Len(world.tsconfigs) : world.tsconfigs[i].path = TreePath(p)
TreeConfig(p) ==
  world.tsconfigs[CHOOSE i \in 1..Len(world.tsconfigs) :
                    world.tsconfigs[i].path = TreePath(p)]

\* allPaths[key] = [...(allPaths[key] || []), ...resolvedPaths], for each
\* entry of a paths object, with the targets resolved against dir
RECURSIVE AddPaths(_, _, _)
AddPaths(allPaths, entries, dir) ==
  IF Len(entries) = 0 THEN allPaths
  ELSE LET e        == Head(entries)
           resolved == [i \in 1..Len(e.targets) |->
                          IF IsAbsolute(e.targets[i]) THEN e.targets[i]
                          ELSE PathResolve(dir, e.targets[i])]
           hits     == { i \in 1..Len(allPaths) : allPaths[i].key = e.key }
           next     == IF hits = {}
                       THEN Append(allPaths, [key |-> e.key, targets |-> resolved])
                       ELSE [i \in 1..Len(allPaths) |->
                               IF i \in hits
                               THEN [key |-> e.key, targets |-> allPaths[i].targets \o resolved]
                               ELSE allPaths[i]]
       IN AddPaths(next, Tail(entries), dir)

\* [...new Set(targets)]
RECURSIVE Dedupe(_, _)
Dedupe(done, rest) ==
  IF Len(rest) = 0 THEN done
  ELSE IF \E i \in 1..Len(done) : done[i] = Head(rest)
       THEN Dedupe(done, Tail(rest))
       ELSE Dedupe(Append(done, Head(rest)), Tail(rest))

\* one iteration of mergeTsConfigs' loop: a file that fails to parse, or whose
\* extended file fails to parse, leaves allPaths as it was before the throw
MergeLayer(allPaths, configFile) ==
  IF ~TreeHasConfig(configFile) \/ ~TreeConfig(configFile).parses THEN allPaths
  ELSE LET config      == TreeConfig(configFile)
           configDir   == PathDirname(configFile)
           extendsPath == PathResolve(configDir, config.extends)
           hasBase     == config.extends # NoExtends /\ TreeHasConfig(extendsPath)
           afterBase   == IF hasBase
                          THEN AddPaths(allPaths, TreeConfig(extendsPath).paths,
                                        PathDirname(extendsPath))
                          ELSE allPaths
       IN IF hasBase /\ ~TreeConfig(extendsPath).parses
          THEN allPaths
          ELSE AddPaths(afterBase, config.paths, configDir)

\* mergeTsConfigs(...).compilerOptions.paths
RECURSIVE MergeLayers(_, _)
MergeLayers(allPaths, configFiles) ==
  IF Len(configFiles) = 0 THEN allPaths
  ELSE MergeLayers(MergeLayer(allPaths, Head(configFiles)), Tail(configFiles))
MergeTsConfigs(configFiles) ==
  LET allPaths == MergeLayers(<<>>, configFiles)
  IN [i \in 1..Len(allPaths) |->
        [key |-> allPaths[i].key, targets |-> Dedupe(<<>>, allPaths[i].targets)]]

(***************************************************************************)
(* analyzeImport.                                                          *)
(***************************************************************************)

MAX_RECURSION_DEPTH == 50

\* the depth guard left out
NoDepthLimit(depth) == FALSE

\* depth > MAX_RECURSION_DEPTH: the call logs and returns
DepthExceeded(depth) == depth > MAX_RECURSION_DEPTH

\* the path-key of a call
FullPath(call) == PathResolve(PathDirname(call.file), call.spec)

\* the visited test left out
NeverAnalyzed(visited, call) == FALSE

\* analyzedPaths.has(fullPath): the call returns
AlreadyAnalyzed(visited, call) == FullPath(call) \in visited

\* alias.replace('/*', '')
AliasPrefix(alias) == Replace(alias, <<"/", "*">>, <<>>)

\* Object.keys(paths).find(alias => moduleSpecifier.startsWith(alias.replace('/*', '')))
AliasMatches(table, spec) ==
  { i \in 1..Len(table) : StartsWith(spec, AliasPrefix(table[i].key)) }
NoMatchingAlias(table, spec) == FALSE
HasMatchingAlias(table, spec) == AliasMatches(table, spec) # {}
MatchingAlias(table, spec) ==
  table[CHOOSE i \in AliasMatches(table, spec) :
          \A j \in AliasMatches(table, spec) : i <= j]

\* the file path an alias specifier stands for, without its extension
AliasFullPath(entry, spec, configPath) ==
  LET aliasRelative == Replace(entry.targets[1], <<"/", "*">>, <<>>)
      tsconfigDir   == PathDirname(configPath)
      aliasPath     == PathResolve(tsconfigDir, aliasRelative)
      aliasPrefix   == AliasPrefix(entry.key)
      relativePath  == IF StartsWith(spec, aliasPrefix)
                       THEN Slice(spec, Len(aliasPrefix)) ELSE <<>>
  IN PathJoin(aliasPath, relativePath)

\* getSourceFile(path + '.ts'), else getSourceFile(path + '.tsx')
ResolvesTo(root, path) ==
  IF HasSourceFile(root, path \o DotTs) THEN path \o DotTs
  ELSE IF HasSourceFile(root, path \o DotTsx) THEN path \o DotTsx
  ELSE <<>>

\* Array.from(workspaceLibs.values()).find(lib => spec.startsWith(`@${lib.name}/`)
\*   || spec === `@${lib.name}`)
LibMatches(libs, spec) ==
  { i \in 1..Len(libs) :
      \/ StartsWith(spec, <<"@">> \o libs[i].name \o <<"/">>)
      \/ spec = <<"@">> \o libs[i].name }
HasWorkspaceLib(libs, spec) == LibMatches(libs, spec) # {}
WorkspaceLib(libs, spec) ==
  libs[CHOOSE i \in LibMatches(libs, spec) : \A j \in LibMatches(libs, spec) : i <= j]

\* the key under which an external import is accounted
ExternalKey(spec) == spec

\* externalImports after the External branch has recorded names under spec
RecordExternal(ext, spec, names) ==
  LET k == ExternalKey(spec)
  IN [q \in DOMAIN ext \cup {k} |->
        (IF q \in DOMAIN ext THEN ext[q] ELSE {}) \cup (IF q = k THEN names ELSE {})]

\* importDecl.getNamedImports(): an export declaration has no such method,
\* so the External branch throws a TypeError for it
NamedImportsThrows(call) == call.kind \notin {"import", "default"}

Frame(todo, depth, catch) == [todo |-> todo, depth |-> depth, catch |-> catch]

\* what one analyzeImport call does up to its first nested call: the sets it
\* leaves, the loop it enters (push) and whether it throws
Outcome(visited, ext, int, alias, push, throws) ==
  [visited |-> visited, ext |-> ext, int |-> int, alias |-> alias,
   push |-> push, throws |-> throws]

Returns(visited) ==
  Outcome(visited, externalImports, internalImports, internalAliasImports,
          <<>>, FALSE)

\* the branch for a specifier starting with '.'
RelativeBranch(call, depth, visited) ==
  LET absolutePath == PathResolve(PathDirname(call.file), call.spec)
      target       == ResolvesTo(call.proj, absolutePath)
  IN IF absolutePath \in visited THEN Returns(visited)
     ELSE IF target = <<>>
     THEN Outcome(visited \cup {absolutePath}, externalImports,
                  internalImports \cup {call.spec}, internalAliasImports,
                  <<>>, FALSE)
     ELSE Outcome(visited \cup {absolutePath}, externalImports,
                  internalImports \cup {call.spec}, internalAliasImports,
                  <<Frame(RecursionLoops(GetSourceFile(call.proj, target), call.proj),
                          depth + 1, FALSE)>>,
                  FALSE)

\* the alias branch falling through: the specifier is recorded as an alias
\* import and as a workspace import, and nothing is followed
AliasBranchFallsThrough(call, depth, visited) ==
  Outcome(visited, externalImports, internalImports \cup {call.spec},
          internalAliasImports \cup {call.spec}, <<>>, FALSE)

\* the branch for a specifier matching an alias key
AliasBranch(call, depth, visited) ==
  LET entry == MatchingAlias(paths, call.spec)
  IN IF Len(entry.targets) = 0
     THEN Outcome(visited, externalImports, internalImports,
                  internalAliasImports \cup {call.spec}, <<>>, TRUE)
     ELSE LET target == ResolvesTo(call.proj,
                                   AliasFullPath(entry, call.spec, tsConfigPath))
          IN IF target = <<>>
             THEN Outcome(visited, externalImports, internalImports,
                          internalAliasImports \cup {call.spec}, <<>>, FALSE)
             ELSE Outcome(visited, externalImports, internalImports,
                          internalAliasImports \cup {call.spec},
                          <<Frame(RecursionLoops(GetSourceFile(call.proj, target),
                                                 call.proj),
                                  depth + 1, FALSE)>>,
                          FALSE)

\* the branch for a specifier naming a workspace library: the library's
\* files are loaded and walked inside a try block
LibraryBranch(call, depth, visited) ==
  LET lib   == WorkspaceLib(GetWorkspaceLibraries, call.spec)
      files == AddSourceFilesAtPaths(lib.root)
  IN Outcome(visited, externalImports, internalImports \cup {call.spec},
             internalAliasImports,
             <<Frame(FileLoops(files, lib.root), depth + 1, TRUE)>>,
             FALSE)

\* the External branch
ExternalBranch(call, visited) ==
  IF NamedImportsThrows(call)
  THEN Outcome(visited, externalImports, internalImports, internalAliasImports,
               <<>>, TRUE)
  ELSE Outcome(visited, RecordExternal(externalImports, call.spec, call.names),
               internalImports, internalAliasImports, <<>>, FALSE)

\* the guard left out: no call returns early
NeverSkipped(call, depth) == FALSE

\* the guard at the head of analyzeImport: the call returns at once
Skipped(call, depth) ==
  DepthExceeded(depth) \/ AlreadyAnalyzed(analyzedPaths, call)

\* the library test placed before the alias test
LibraryFirstOutcome(call, depth) ==
  IF Skipped(call, depth) THEN Returns(analyzedPaths)
  ELSE LET visited == analyzedPaths \cup {FullPath(call)}
       IN IF StartsWith(call.spec, <<".">>) THEN RelativeBranch(call, depth, visited)
          ELSE IF StartsWith(call.spec, <<"@">>)
          THEN IF HasWorkspaceLib(GetWorkspaceLibraries, call.spec)
               THEN LibraryBranch(call, depth, visited)
               ELSE IF HasMatchingAlias(paths, call.spec)
               THEN AliasBranch(call, depth, visited)
               ELSE ExternalBranch(call, visited)
          ELSE ExternalBranch(call, visited)

AnalyzeImportOutcome(call, depth) ==
  IF Skipped(call, depth) THEN Returns(analyzedPaths)
  ELSE LET visited == analyzedPaths \cup {FullPath(call)}
       IN IF StartsWith(call.spec, <<".">>) THEN RelativeBranch(call, depth, visited)
          ELSE IF StartsWith(call.spec, <<"@">>)
          THEN IF HasMatchingAlias(paths, call.spec)
               THEN AliasBranch(call, depth, visited)
               ELSE IF HasWorkspaceLib(GetWorkspaceLibraries, call.spec)
               THEN LibraryBranch(call, depth, visited)
               ELSE ExternalBranch(call, visited)
          ELSE ExternalBranch(call, visited)

\* the frames left when an error is thrown: those below the innermost try block
RECURSIVE Unwind(_)
Unwind(frames) ==
  IF Len(frames) = 0 THEN <<>>
  ELSE IF Head(frames).catch THEN Tail(frames)
  ELSE Unwind(Tail(frames))
Caught(frames) == \E i \in 1..Len(frames) : frames[i].catch

(***************************************************************************)
(* The report.                                                             *)
(***************************************************************************)

\* the reduction left out: every declared dependency is copied
AllDependencies(ext, manifest) ==
  LET names == { manifest.dependencies[i].name : i \in 1..Len(manifest.dependencies) }
  IN [k \in names |-> RangeOf(manifest.dependencies, k)]

\* the loop over externalImports that fills usedDependencies
UsedDependencies(ext, manifest) ==
  LET used == { k \in DOMAIN ext : Truthy(RangeOf(manifest.dependencies, k)) }
  IN [k \in used |-> RangeOf(manifest.dependencies, k)]

\* the reduction left out: every declared devDependency is copied
AllDevDependencies(ext, manifest) ==
  LET names == { manifest.devDependencies[i].name :
                   i \in 1..Len(manifest.devDependencies) }
  IN [k \in names |-> RangeOf(manifest.devDependencies, k)]

\* ... and usedDevDependencies
UsedDevDependencies(ext, manifest) ==
  LET used == { k \in DOMAIN ext :
                  /\ ~Truthy(RangeOf(manifest.dependencies, k))
                  /\ Truthy(RangeOf(manifest.devDependencies, k)) }
  IN [k \in used |-> RangeOf(manifest.devDependencies, k)]

\* the report written over the project's package.json
ManifestPath(root) ==
  PathJoin(root, <<"p", "a", "c", "k", "a", "g", "e", ".", "j", "s", "o", "n">>)

\* the report written under a name that findAllTsConfigFiles picks up
ConfigPath(root) ==
  PathJoin(root, <<"t", "s", "c", "o", "n", "f", "i", "g", ".", "o", "p", "d", "e", "p", ".", "j", "s", "o", "n">>)

OutputPath(root) ==
  PathJoin(root, <<"o", "p", "d", "e", "p", ".", "j", "s", "o", "n">>)

Output ==
  [dependencies    |-> UsedDependencies(externalImports, packageJson),
   devDependencies |-> UsedDevDependencies(externalImports, packageJson),
   analysis |-> [externalImports      |-> externalImports,
                 internalImports      |-> internalImports,
                 internalAliasImports |-> internalAliasImports]]

(***************************************************************************)
(* The run: analyzeDepsGenerator.                                          *)
(***************************************************************************)

NoManifest == NoFile
NoMap == [k \in {} |-> {}]

HasProject(name) == \E i \in 1..Len(world.projects) : world.projects[i].name = name
ProjectOf(name) ==
  world.projects[CHOOSE i \in 1..Len(world.projects) : world.projects[i].name = name]

\* the errors a run rejects with
NoError == [msg |-> "", arg |-> <<>>]
ProjectNotFoundUnnamed(name) == [msg |-> "Project not found in workspace", arg |-> <<>>]
ProjectNotFound(name) == [msg |-> "Project not found in workspace", arg |-> name]
NoPackageJson(root) == [msg |-> "No package.json found for project at", arg |-> root]
ConfigFileError(path) == [msg |-> "tsconfig file not found or not parsed", arg |-> path]
TypeError == [msg |-> "TypeError", arg |-> <<>>]

\* the state of a process that has loaded the module and is about to call the
\* generator for the first time
FirstCall ==
  /\ pc = "init"
  /\ packageJson = NoManifest
  /\ paths = <<>>
  /\ tsConfigPath = <<>>
  /\ stack = <<>>
  /\ analyzedPaths = {}
  /\ externalImports = NoMap
  /\ internalImports = {}
  /\ internalAliasImports = {}
  /\ walked = {}
  /\ written = <<>>
  /\ dependencyCache = [r \in {} |-> NoManifest]
  /\ steps = 0
  /\ error = NoError
  /\ run = 1
  /\ awaiting = {}

Init == world \in Worlds /\ FirstCall

\* the key of the manifest cache
OneCacheKey(root) == <<>>
CacheKey(root) == root

\* analyzeProjectDependencies: the cached manifest of the root, else the one found
AnalyzeProjectDependencies(root) ==
  IF CacheKey(root) \in DOMAIN dependencyCache THEN dependencyCache[CacheKey(root)]
  ELSE FindPackageJson(root)

\* new Project({ tsConfigFilePath }): ts-morph reads the file itself and
\* throws when it is not there or when TypeScript cannot parse it
ProjectThrows(configPath) ==
  ~TreeHasConfig(configPath) \/ ~TreeConfig(configPath).tsParses

\* the analysis and the visited set a run constructs for itself
NewExternalImports == NoMap
NewInternalImports == {}
NewInternalAliasImports == {}
KeptAnalyzedPaths == analyzedPaths
NewAnalyzedPaths == {}

\* the generator up to its loop over the project's source files
Start ==
  /\ steps' = steps + 1
  /\ pc = "init"
  /\ IF ~HasProject(world.projectName)
     THEN /\ pc' = "failed"
          /\ error' = ProjectNotFound(world.projectName)
          /\ UNCHANGED <<packageJson, paths, tsConfigPath, stack, walked,
                         dependencyCache, analyzedPaths, externalImports,
                         internalImports, internalAliasImports>>
     ELSE LET root       == ProjectOf(world.projectName).root
              manifest   == AnalyzeProjectDependencies(root)
              configs    == FindAllTsConfigFiles(root)
              configPath == IF Len(configs) > 0 THEN configs[1]
                            ELSE PathJoin(root, <<"t", "s", "c", "o", "n", "f", "i", "g",
                                                  ".", "j", "s", "o", "n">>)
              files      == AddSourceFilesAtPaths(root)
          IN IF ~manifest.exists
             THEN /\ pc' = "failed"
                  /\ error' = NoPackageJson(root)
                  /\ UNCHANGED <<packageJson, paths, tsConfigPath, stack, walked,
                                 dependencyCache, analyzedPaths, externalImports,
                                 internalImports, internalAliasImports>>
             ELSE /\ packageJson' = manifest
                  /\ dependencyCache' =
                       [r \in DOMAIN dependencyCache \cup {CacheKey(root)} |->
                          IF r = CacheKey(root) THEN manifest ELSE dependencyCache[r]]
                  /\ paths' = MergeTsConfigs(configs)
                  /\ tsConfigPath' = configPath
                  /\ IF ProjectThrows(configPath)
                     THEN /\ pc' = "failed"
                          /\ error' = ConfigFileError(configPath)
                          /\ UNCHANGED <<stack, walked, analyzedPaths, externalImports,
                                         internalImports, internalAliasImports>>
                     ELSE /\ pc' = "walk"
                          /\ error' = NoError
                          /\ stack' = <<Frame(FileLoops(files, root), 0, FALSE)>>
                          /\ walked' = {}
                          /\ analyzedPaths' = NewAnalyzedPaths
                          /\ externalImports' = NewExternalImports
                          /\ internalImports' = NewInternalImports
                          /\ internalAliasImports' = NewInternalAliasImports
  /\ UNCHANGED <<world, written, run, awaiting>>

\* one call of analyzeImport, up to its first nested call or its return
AnalyzeImport ==
  /\ steps' = steps + 1
  /\ pc = "walk"
  /\ Len(stack) > 0
  /\ Len(Head(stack).todo) > 0
  /\ \E out \in {AnalyzeImportOutcome(Head(Head(stack).todo), Head(stack).depth)} :
     LET frame == Head(stack)
         rest  == <<[frame EXCEPT !.todo = Tail(@)]>> \o Tail(stack)
     IN /\ analyzedPaths' = out.visited
        /\ externalImports' = out.ext
        /\ internalImports' = out.int
        /\ internalAliasImports' = out.alias
        /\ walked' = walked \cup {Head(Head(stack).todo).file}
        /\ IF out.throws
           THEN IF Caught(rest)
                THEN stack' = Unwind(rest) /\ pc' = "walk" /\ error' = NoError
                ELSE stack' = <<>> /\ pc' = "failed" /\ error' = TypeError
           ELSE stack' = out.push \o rest /\ pc' = "walk" /\ error' = NoError
  /\ UNCHANGED <<world, packageJson, paths, tsConfigPath, written, dependencyCache,
                 run, awaiting>>

\* a nested analyzeImport call has run its loops and returns to its caller
Return ==
  /\ steps' = steps + 1
  /\ pc = "walk"
  /\ Len(stack) > 1
  /\ Len(Head(stack).todo) = 0
  /\ stack' = Tail(stack)
  /\ UNCHANGED <<world, pc, packageJson, paths, tsConfigPath, analyzedPaths,
                 externalImports, internalImports, internalAliasImports, walked,
                 written, dependencyCache, error, run, awaiting>>

\* the loop over the project's files is over: the manifest is reduced, the
\* report written and the run suspends in its await of formatFiles
Finish ==
  /\ steps' = steps + 1
  /\ pc = "walk"
  /\ Len(stack) = 1
  /\ Len(Head(stack).todo) = 0
  /\ written' = Append(written,
                       [path |-> OutputPath(ProjectOf(world.projectName).root),
                        content |-> Output,
                        by |-> [run |-> run, suspended |-> awaiting,
                                cached |-> DOMAIN dependencyCache]])
  /\ stack' = <<>>
  /\ pc' = "done"
  /\ awaiting' = awaiting \cup {run}
  /\ UNCHANGED <<world, packageJson, paths, tsConfigPath, analyzedPaths,
                 externalImports, internalImports, internalAliasImports, walked,
                 dependencyCache, error, run>>

\* formatFiles settles for a suspended run, which logs and resolves; this
\* happens only while no run is in its synchronous part
FormatFiles ==
  /\ steps' = steps + 1
  /\ pc \in {"done", "failed"}
  /\ \E r \in awaiting : awaiting' = awaiting \ {r}
  /\ UNCHANGED <<world, pc, packageJson, paths, tsConfigPath, stack, analyzedPaths,
                 externalImports, internalImports, internalAliasImports, walked,
                 written, dependencyCache, error, run>>

Next == Start \/ AnalyzeImport \/ Return \/ Finish \/ FormatFiles

Spec == Init /\ [][Next]_vars

(***************************************************************************)
(* A session: several invocations of the generator on one workspace.       *)
(***************************************************************************)

\* the generator is called again, while no run is in its synchronous part;
\* earlier runs may still be suspended in formatFiles
Invoke ==
  /\ pc \in {"done", "failed"}
  /\ run < MaxRuns
  /\ run' = run + 1
  /\ \E n \in SessionNames : world' = [world EXCEPT !.projectName = n]
  /\ pc' = "init"
  /\ steps' = 0
  /\ error' = NoError
  /\ UNCHANGED <<packageJson, paths, tsConfigPath, stack, analyzedPaths,
                 externalImports, internalImports, internalAliasImports, walked,
                 written, dependencyCache, awaiting>>

\* between two runs the project's package.json is edited or deleted
EditManifest ==
  /\ pc \in {"done", "failed"}
  /\ world.pkgProject = Manifest1
  /\ \E m \in {Manifest3, NoFile} : world' = [world EXCEPT !.pkgProject = m]
  /\ UNCHANGED <<pc, packageJson, paths, tsConfigPath, stack, analyzedPaths,
                 externalImports, internalImports, internalAliasImports, walked,
                 written, dependencyCache, steps, error, run, awaiting>>

\* the process ends when all its runs have settled and a new process loads
\* the module: the module-level cache is constructed anew
LoadModule ==
  /\ pc \in {"done", "failed"}
  /\ awaiting = {}
  /\ DOMAIN dependencyCache # {}
  /\ dependencyCache' = [r \in {} |-> NoManifest]
  /\ UNCHANGED <<world, pc, packageJson, paths, tsConfigPath, stack, analyzedPaths,
                 externalImports, internalImports, internalAliasImports, walked,
                 written, steps, error, run, awaiting>>

SessionInit == world \in SessionWorlds /\ FirstCall

SessionNext ==
  \/ Start \/ AnalyzeImport \/ Return \/ Finish \/ FormatFiles
  \/ Invoke \/ EditManifest \/ LoadModule

Session == SessionInit /\ [][SessionNext]_vars

(***************************************************************************)
(* One module graph analysed in several enumeration orders.                *)
(***************************************************************************)

\* the sequences with the elements of seq in any order
Orderings(seq) ==
  { [i \in 1..Len(seq) |-> seq[f[i]]] :
      f \in { g \in [1..Len(seq) -> 1..Len(seq)] :
                \A i, j \in 1..Len(seq) : g[i] = g[j] => i = j } }

\* the file lists with the same files in any order, each with the same
\* declarations in any order
Reordered(files) ==
  LET choices == UNION { Orderings(files[i].refs) : i \in 1..Len(files) }
  IN UNION { { [i \in 1..Len(fs) |-> [path |-> fs[i].path, refs |-> rs[i]]] :
                 rs \in { r \in [1..Len(fs) -> choices] :
                            \A i \in 1..Len(fs) : r[i] \in Orderings(fs[i].refs) } } :
             fs \in Orderings(files) }

\* the generator is called again on the same project after its source files
\* came to be enumerated in another order, or their declarations reordered
InvokeReordered ==
  /\ pc = "done"
  /\ run < MaxOrders
  /\ run' = run + 1
  /\ \E fs \in Reordered(world.files) : world' = [world EXCEPT !.files = fs]
  /\ pc' = "init"
  /\ steps' = 0
  /\ error' = NoError
  /\ UNCHANGED <<packageJson, paths, tsConfigPath, stack, analyzedPaths,
                 externalImports, internalImports, internalAliasImports, walked,
                 written, dependencyCache, awaiting>>

OrdersInit == world \in OrderWorlds /\ FirstCall

OrdersNext ==
  \/ Start \/ AnalyzeImport \/ Return \/ Finish \/ FormatFiles
  \/ InvokeReordered

Orders == OrdersInit /\ [][OrdersNext]_vars

(***************************************************************************)
(* Notions the claims are stated in.                                       *)
(***************************************************************************)

Ended == pc \in {"done", "failed"}

\* the report the run wrote
Report == written[Len(written)].content

\* the package an external specifier names: '@scope/name' or the first segment
PackageName(spec) ==
  LET segs == Split(spec)
  IN IF StartsWith(spec, <<"@">>) /\ Len(segs) >= 2
     THEN segs[1] \o <<"/">> \o segs[2]
     ELSE segs[1]

\* the classification of a specifier, by the rules in their order
IsRelativeSpec(spec) == StartsWith(spec, <<".">>) \/ StartsWith(spec, <<"/">>)
IsAliasSpec(spec) ==
  /\ StartsWith(spec, <<"@">>)
  /\ \E i \in 1..Len(paths) :
       \/ spec = AliasPrefix(paths[i].key)
       \/ StartsWith(spec, AliasPrefix(paths[i].key) \o <<"/">>)
IsLibrarySpec(spec) ==
  /\ StartsWith(spec, <<"@">>)
  /\ ~IsAliasSpec(spec)
  /\ HasWorkspaceLib(GetWorkspaceLibraries, spec)
IsExternalSpec(spec) ==
  ~IsRelativeSpec(spec) /\ ~IsAliasSpec(spec) /\ ~IsLibrarySpec(spec)

\* an import declaration or an export declaration with a module specifier
IsDeclaration(r) == r.kind \in {"import", "default", "export", "star"}

FileSet == { world.files[i] : i \in 1..Len(world.files) }
RefSet(f) == { f.refs[i] : i \in 1..Len(f.refs) }

\* the entry modules: the non-test source files under the project root
EntryModules ==
  { f \in FileSet : InGlob(ProjectOf(world.projectName).root, f.path) }
WalkedModules == { f \in FileSet : f.path \in walked }

Declared(name) == Truthy(RangeOf(packageJson.dependencies, name))

\* the file a relative specifier of module f stands for, if the tree has it
RelativeTargets(f, r) ==
  { g \in FileSet :
      /\ StartsWith(r.spec, <<".">>)
      /\ g.path \in { PathResolve(PathDirname(f.path), r.spec) \o DotTs,
                      PathResolve(PathDirname(f.path), r.spec) \o DotTsx } }

\* the files reached from a set of files by one relative import
RelativeStep(fs) ==
  { g \in FileSet : \E f \in fs : \E r \in RefSet(f) : g \in RelativeTargets(f, r) }

\* the files reached from an entry module through a chain of N >= 1 relative imports
RECURSIVE ChainClosure(_, _)
ChainClosure(fs, n) ==
  IF n = 0 THEN fs ELSE ChainClosure(fs \cup RelativeStep(fs), n - 1)
ChainReached == ChainClosure(RelativeStep(EntryModules), Len(world.files))

\* a run that found its project, its manifest and its configuration file
\* has ended
WalkEnded ==
  /\ Ended
  /\ HasProject(world.projectName)
  /\ packageJson.exists
  /\ error.msg \notin {"No package.json found for project at",
                       "tsconfig file not found or not parsed"}

\* C1: no false negatives. When a run that found its project, manifest and
\* configuration has ended, every external package
\* that an import declaration or a re-export of an entry module names is a key
\* of externalImports and, if the manifest's dependencies declare it, is in the
\* report's dependencies.
C1_NoFalseNegatives ==
  WalkEnded =>
    \A f \in EntryModules : \A r \in RefSet(f) :
      (IsDeclaration(r) /\ IsExternalSpec(r.spec)) =>
        /\ PackageName(r.spec) \in DOMAIN externalImports
        /\ Declared(PackageName(r.spec)) =>
             /\ pc = "done"
             /\ PackageName(r.spec) \in DOMAIN Report.dependencies

\* C2: a declared package X that is reachable from an entry module only
\* through a chain of N >= 1 relative internal files, the last of which
\* re-exports from X, is in the report's dependencies with its declared range.
C2_RelativeChainReported ==
  pc = "done" =>
    \A g \in ChainReached : \A r \in RefSet(g) :
      ( /\ r.kind \in {"export", "star"}
        /\ IsExternalSpec(r.spec)
        /\ Declared(PackageName(r.spec))
        /\ \A f \in EntryModules : \A q \in RefSet(f) :
             PackageName(q.spec) # PackageName(r.spec) )
      => /\ PackageName(r.spec) \in DOMAIN Report.dependencies
         /\ Report.dependencies[PackageName(r.spec)]
              = RangeOf(packageJson.dependencies, PackageName(r.spec))

\* the pending work of a run: the path-keys not yet visited, weighted by the
\* longest loop one call can open, plus the calls and returns still pending
RECURSIVE TotalRefs(_)
TotalRefs(files) ==
  IF Len(files) = 0 THEN 0 ELSE Len(Head(files).refs) + TotalRefs(Tail(files))
Weight == 2 * TotalRefs(world.files) + 2
RECURSIVE Pending(_)
Pending(frames) ==
  IF Len(frames) = 0 THEN 0
  ELSE Len(Head(frames).todo) + 1 + Pending(Tail(frames))
\* every call that is not skipped adds one new path-key to the visited set,
\* and there are at most as many path-keys as declarations
InitialMeasure == (TotalRefs(world.files) + 1) * Weight + 3
Measure ==
  CASE pc = "init" -> InitialMeasure
    [] pc = "walk" -> (TotalRefs(world.files) - Cardinality(analyzedPaths)) * Weight
                        + Pending(stack) + 2
    [] OTHER       -> Cardinality(awaiting)

\* C3: a run over any finite module graph terminates: every step strictly
\* decreases a natural-number measure of the pending work (so the steps
\* taken plus the measure never exceed the initial measure), also on cycles
\* among relative, alias and workspace-library references, and a run that has
\* not reached the report write or a fatal error always has a next step (it
\* is about to start, or it is in a loop of calls with a call or a return
\* pending).
C3_Terminates ==
  /\ Measure >= 0
  /\ steps + Measure <= InitialMeasure
  /\ Ended \/ pc = "init" \/ (pc = "walk" /\ Len(stack) > 0)

\* a finished run whose module graph has a cycle through alias imports: a.ts
\* was walked again from b.ts and its reference back to b.ts was skipped
C3_Witness ==
  /\ pc = "done"
  /\ HasMatchingAlias(paths, SpAliasA)
  /\ \E a, b \in EntryModules :
       /\ a.path = FileA /\ b.path = FileB
       /\ \E r \in RefSet(a) : r.spec = SpAliasB
       /\ \E r \in RefSet(b) : r.spec = SpAliasA
  /\ PathResolve(PathDirname(FileA), SpAliasB) \in analyzedPaths
  /\ PathResolve(PathDirname(FileB), SpAliasA) \in analyzedPaths

\* C4: for a relative-import cycle (A imports './b', B imports './a'), the
\* finished run has both relative specifiers in internalImports.
C4_RelativeCycleRecorded ==
  pc = "done" =>
    \A f, g \in EntryModules : \A r \in RefSet(f) : \A q \in RefSet(g) :
      (f # g /\ g \in RelativeTargets(f, r) /\ f \in RelativeTargets(g, q))
      => (r.spec \in internalImports /\ q.spec \in internalImports)

\* the packages the declarations of the walked modules name
ReferencedPackages ==
  { PackageName(r.spec) : r \in UNION { RefSet(f) : f \in WalkedModules } }
DeclaredNames ==
  { packageJson.dependencies[i].name : i \in 1..Len(packageJson.dependencies) }
    \cup { packageJson.devDependencies[i].name :
             i \in 1..Len(packageJson.devDependencies) }

\* C5: a package the manifest declares and no walked module references is
\* neither in the report's dependencies nor in its devDependencies.
C5_UnreferencedNeverReported ==
  pc = "done" =>
    \A n \in DeclaredNames \ ReferencedPackages :
      /\ n \notin DOMAIN Report.dependencies
      /\ n \notin DOMAIN Report.devDependencies

\* a finished run that reports a used dependency and leaves out a declared
\* one that nothing references, the unreferenced one being declared first
C5_Witness ==
  /\ pc = "done"
  /\ packageJson.dependencies[1].name = SpZ
  /\ SpZ \in DeclaredNames \ ReferencedPackages
  /\ SpX \in DOMAIN Report.dependencies
  /\ SpY \in DOMAIN Report.devDependencies

\* C6: an External specifier is accounted under its package name, so an
\* entry module importing a subpath of a declared package gets that package,
\* with its range, into the report's dependencies.
C6_AccountedUnderPackageName ==
  pc = "done" =>
    \A f \in EntryModules : \A r \in RefSet(f) :
      (r.kind = "import" /\ IsExternalSpec(r.spec) /\ Declared(PackageName(r.spec)))
      => /\ PackageName(r.spec) \in DOMAIN Report.dependencies
         /\ Report.dependencies[PackageName(r.spec)]
              = RangeOf(packageJson.dependencies, PackageName(r.spec))

\* the named bindings of all import statements of walked modules for package n
ImportedNames(n) ==
  UNION { r.names : r \in { q \in UNION { RefSet(f) : f \in WalkedModules } :
                              /\ q.kind = "import"
                              /\ IsExternalSpec(q.spec)
                              /\ PackageName(q.spec) = n } }

\* C7: after the run, externalImports[P] is the union of the named bindings
\* of all import statements for P across the walked modules (stated for the
\* import statements whose specifier is the package name itself).
C7_BindingsUnion ==
  pc = "done" =>
    \A f \in WalkedModules : \A r \in RefSet(f) :
      (r.kind = "import" /\ IsExternalSpec(r.spec) /\ PackageName(r.spec) = r.spec
         /\ \A g \in WalkedModules : \A q \in RefSet(g) :
               PackageName(q.spec) = r.spec => q.spec = r.spec)
      => /\ PackageName(r.spec) \in DOMAIN externalImports
         /\ externalImports[PackageName(r.spec)] = ImportedNames(PackageName(r.spec))

\* the specifiers that match an alias key and are also declared packages
AliasedDeclared ==
  { r.spec : r \in { q \in UNION { RefSet(f) : f \in FileSet } :
                       /\ IsAliasSpec(q.spec)
                       /\ q.spec \in DeclaredNames } }

\* C8: a specifier that matches an alias key and is also a declared package
\* is never a key of externalImports; once the run is over it is in
\* internalAliasImports if an entry module references it, and it is not in the
\* report's dependencies or devDependencies.
C8_AliasWinsOverDeclaredPackage ==
  \A s \in AliasedDeclared :
    /\ s \notin DOMAIN externalImports
    /\ pc = "done" =>
         /\ s \notin DOMAIN Report.dependencies
         /\ s \notin DOMAIN Report.devDependencies
         /\ (\E f \in EntryModules : \E r \in RefSet(f) : r.spec = s)
              => s \in internalAliasImports

\* a finished run in which a.ts imported '@a/b', '@a/*' is an alias key and
\* '@a/b' is a declared dependency
C8_Witness ==
  /\ pc = "done"
  /\ SpAliasB \in AliasedDeclared
  /\ Declared(SpAliasB)
  /\ \E f \in EntryModules : \E r \in RefSet(f) : r.spec = SpAliasB
  /\ SpAliasB \in internalAliasImports

\* the module an alias specifier of an entry module resolves to
AliasTargets(f, r) ==
  { m \in FileSet :
      /\ StartsWith(r.spec, <<"@">>)
      /\ HasMatchingAlias(paths, r.spec)
      /\ Len(MatchingAlias(paths, r.spec).targets) > 0
      /\ m.path = ResolvesTo(ProjectOf(world.projectName).root,
                             AliasFullPath(MatchingAlias(paths, r.spec), r.spec,
                                           tsConfigPath)) }

\* C9: when an entry module imports an alias specifier that resolves to a
\* module M, the run ends with the specifier in internalAliasImports and every
\* external package imported or re-exported by M in externalImports and, if
\* declared, in the report's dependencies.
C9_AliasTargetFollowed ==
  WalkEnded =>
    \A f \in EntryModules : \A r \in RefSet(f) : \A m \in AliasTargets(f, r) :
      /\ r.spec \in internalAliasImports
      /\ \A q \in RefSet(m) :
           (IsDeclaration(q) /\ IsExternalSpec(q.spec)) =>
             /\ PackageName(q.spec) \in DOMAIN externalImports
             /\ Declared(PackageName(q.spec)) =>
                  /\ pc = "done"
                  /\ PackageName(q.spec) \in DOMAIN Report.dependencies

\* the non-test source files under the root of the library a specifier names
LibraryModules(spec) ==
  { f \in FileSet :
      InGlob(WorkspaceLib(GetWorkspaceLibraries, spec).root, f.path) }

\* C10: when a walked module imports a specifier naming a registered
\* workspace library, the run ends with the specifier in internalImports and
\* not in externalImports, and with every external package imported or
\* re-exported by the library's source files in externalImports and, if
\* declared, in the report.
C10_LibraryExpanded ==
  pc = "done" =>
    \A f \in WalkedModules : \A r \in RefSet(f) :
      IsLibrarySpec(r.spec) =>
        /\ r.spec \in internalImports
        /\ r.spec \notin DOMAIN externalImports
        /\ \A m \in LibraryModules(r.spec) : \A q \in RefSet(m) :
             (IsDeclaration(q) /\ IsExternalSpec(q.spec)) =>
               /\ PackageName(q.spec) \in DOMAIN externalImports
               /\ Declared(PackageName(q.spec)) =>
                    PackageName(q.spec) \in DOMAIN Report.dependencies

\* C11: a run whose projectName is not in the registry rejects with the
\* error 'Project <name> not found ...' that names the project, and writes
\* nothing to the tree.
C11_UnknownProjectRejected ==
  ~HasProject(world.projectName) =>
    /\ pc \in {"init", "failed"}
    /\ written = <<>>
    /\ pc = "failed" =>
         /\ error.msg = "Project not found in workspace"
         /\ error.arg = world.projectName

\* a run for the unregistered project q has been rejected although the tree
\* has a manifest and a configuration file for the registered project
C11_Witness ==
  /\ world.projectName = NameQ
  /\ pc = "failed"
  /\ error.arg = NameQ
  /\ world.pkgProject.exists
  /\ Len(world.tsconfigs) > 0
  /\ written = <<>>

\* the manifest the lookup rule gives for a project root: the package.json
\* at the project root when the tree has it, otherwise the workspace's
ManifestByRule(root) ==
  IF PackageJsonAt(root).exists THEN PackageJsonAt(root) ELSE world.pkgRoot

\* C12: a run that walks the project uses the package.json at the project
\* root when the tree has it, otherwise the one at the workspace root; when
\* the tree has neither no run gets as far as walking and a run that was
\* rejected for it carries the error 'No package.json found ...'.
C12_ManifestLookup ==
  HasProject(world.projectName) =>
    LET root == ProjectOf(world.projectName).root
    IN /\ pc = "walk" =>
            /\ ManifestByRule(root).exists
            /\ packageJson = ManifestByRule(root)
       /\ (pc = "failed" /\ error.msg = "No package.json found for project at")
            => ~ManifestByRule(root).exists

\* C13: when the project is registered and a manifest is found, no run is
\* rejected, whatever else is wrong with the workspace (a configuration file
\* that is missing or does not parse, a specifier that resolves to no file).
C13_AnomaliesNotFatal ==
  ( /\ HasProject(world.projectName)
    /\ ManifestByRule(ProjectOf(world.projectName).root).exists )
  => pc # "failed"

\* C14: a declared package that an entry module references through a
\* require('X') call is in the report's dependencies with its declared range.
C14_RequireReported ==
  pc = "done" =>
    \A f \in EntryModules : \A r \in RefSet(f) :
      (r.kind = "require" /\ IsExternalSpec(r.spec) /\ Declared(PackageName(r.spec)))
      => /\ PackageName(r.spec) \in DOMAIN Report.dependencies
         /\ Report.dependencies[PackageName(r.spec)]
              = RangeOf(packageJson.dependencies, PackageName(r.spec))

\* the path the report is to be written at: the option outputPath under the
\* project root, or the default filename when the option is not given
ConfiguredOutputPath ==
  PathJoin(ProjectOf(world.projectName).root,
           IF world.outputPath = <<>>
           THEN <<"o", "p", "d", "e", "p", ".", "j", "s", "o", "n">>
           ELSE world.outputPath)

\* C15: the report is written at the path the option outputPath gives,
\* relative to the project root, and at the default filename under the
\* project root only when no outputPath is given.
C15_OutputPathHonoured ==
  pc = "done" => written[Len(written)].path = ConfiguredOutputPath

\* C16: the written output carries the manifest's name and version unchanged
\* next to the reduced dependencies and devDependencies.
C16_NameAndVersionEchoed ==
  pc = "done" =>
    /\ {"name", "version", "dependencies", "devDependencies"} \subseteq DOMAIN Report
    /\ Report.name = packageJson.name
    /\ Report.version = packageJson.version

\* C17: when no entry module has an import or export declaration, the
\* report's dependencies and devDependencies are both empty, whatever the
\* manifest declares.
C17_NoDeclarationsEmptyReport ==
  ( /\ pc = "done"
    /\ \A f \in EntryModules : \A r \in RefSet(f) : ~IsDeclaration(r) )
  => /\ DOMAIN Report.dependencies = {}
     /\ DOMAIN Report.devDependencies = {}

\* a finished run over a project whose only entry module has no declaration,
\* with a manifest that declares dependencies and devDependencies
C17_Witness ==
  /\ pc = "done"
  /\ EntryModules # {}
  /\ \A f \in EntryModules : \A r \in RefSet(f) : ~IsDeclaration(r)
  /\ Len(packageJson.dependencies) > 0
  /\ Len(packageJson.devDependencies) > 0
  /\ DOMAIN Report.dependencies = {}

\* the run is at the end of its walk: its next step writes the report
AboutToWrite == pc = "walk" /\ Len(stack) = 1 /\ Len(Head(stack).todo) = 0

\* C18: the manifest cache does not leak across invocations: the report a
\* run is about to write has the dependencies and devDependencies reduced
\* from the manifest as the tree has it during that run, also when the
\* manifest was changed after an earlier run on the same project root.
C18_NoStaleManifest ==
  AboutToWrite =>
    LET now == ManifestByRule(ProjectOf(world.projectName).root)
    IN /\ now.exists
       /\ Output.dependencies = UsedDependencies(externalImports, now)
       /\ Output.devDependencies = UsedDevDependencies(externalImports, now)

\* the path-keys and the specifiers of the declarations analyzeImport was
\* called for in this run
RunKeys ==
  { PathResolve(PathDirname(f.path), r.spec) :
      f \in WalkedModules, r \in UNION { RefSet(g) : g \in WalkedModules } }
RunSpecs == { r.spec : r \in UNION { RefSet(f) : f \in WalkedModules } }

\* C19: every run starts its walk with an empty visited set and empty
\* externalImports, internalImports and internalAliasImports; what a run
\* holds in them comes from the declarations it walked itself; and a later
\* run on the same project records what the earlier one recorded (nothing
\* is skipped because an earlier run visited it).
C19_FreshAnalysisPerRun ==
  /\ (pc = "walk" /\ steps = 1) =>
       /\ analyzedPaths = {}
       /\ DOMAIN externalImports = {}
       /\ internalImports = {}
       /\ internalAliasImports = {}
  /\ pc = "walk" =>
       /\ analyzedPaths \subseteq RunKeys
       /\ DOMAIN externalImports \subseteq RunSpecs
       /\ internalImports \subseteq RunSpecs
       /\ internalAliasImports \subseteq RunSpecs
  /\ \A i, j \in 1..Len(written) :
       written[i].path = written[j].path
         => written[i].content.analysis = written[j].content.analysis

\* the second run of a process, on the project the first run analysed, has
\* written a report with the same non-empty analysis as the first
C19_Witness ==
  /\ pc = "done"
  /\ run = 2
  /\ Len(written) = 2
  /\ written[1].by.run = 1 /\ written[2].by.run = 2
  /\ written[2].by.cached = written[1].by.cached
  /\ written[1].path = written[2].path
  /\ DOMAIN written[1].content.analysis.externalImports # {}
  /\ written[2].content.analysis = written[1].content.analysis

\* C20: as long as the tree's manifests are as they were, a run on a project
\* writes the same report whether it runs alone in a fresh process or while
\* a run on another project is suspended in formatFiles: all reports written
\* at one path are equal.
C20_InterleavedAsAlone ==
  world.pkgProject = Manifest1 =>
    \A i, j \in 1..Len(written) :
      written[i].path = written[j].path
        => written[i].content = written[j].content

\* the library was analysed alone in a fresh process, then, in another
\* process, while a run on the project p was suspended in formatFiles; the
\* two reports for the library are equal and name a dependency
C20_Witness ==
  /\ Len(written) = 3
  /\ world.pkgProject = Manifest1
  /\ written[1].by.suspended = {} /\ written[1].by.cached = {RootL}
  /\ written[2].by.cached = {RootP}
  /\ written[3].by.suspended = {written[2].by.run}
  /\ written[3].by.cached = {RootP, RootL}
  /\ written[1].path = written[3].path
  /\ written[1].path # written[2].path
  /\ written[1].content = written[3].content
  /\ DOMAIN written[3].content.dependencies # {}

\* the keys of a dependencies object
KeysOf(deps) == { deps[i].name : i \in 1..Len(deps) }

\* the entries of a dependencies object under the keys in keep
Restricted(deps, keep) ==
  [k \in KeysOf(deps) \cap keep |-> RangeOf(deps, k)]

\* C21: the report's dependencies is M.dependencies restricted to the keys of
\* the final externalImports, and its devDependencies is M.devDependencies
\* restricted to the keys of externalImports that are not keys of
\* M.dependencies.
C21_ManifestReduction ==
  (pc = "done" /\ Len(written) > 0) =>
    LET E == DOMAIN Report.analysis.externalImports
    IN /\ Report.dependencies = Restricted(packageJson.dependencies, E)
       /\ Report.devDependencies =
            Restricted(packageJson.devDependencies,
                       E \ KeysOf(packageJson.dependencies))

\* C22: at every point of a run internalImports, internalAliasImports and the
\* key set of externalImports are pairwise disjoint.
C22_BucketsDisjoint ==
  /\ internalImports \cap internalAliasImports = {}
  /\ internalImports \cap DOMAIN externalImports = {}
  /\ internalAliasImports \cap DOMAIN externalImports = {}

\* a walk under way with a specifier in each of the three buckets
C22_Witness ==
  /\ pc = "walk"
  /\ internalImports # {}
  /\ internalAliasImports # {}
  /\ DOMAIN externalImports # {}

\* C23: a specifier starting with '/' is classified like one starting with
\* '.': it is never a key of externalImports.
C23_AbsoluteSpecifierRelative ==
  \A k \in DOMAIN externalImports : ~StartsWith(k, <<"/">>)

\* the specifiers of the tree's declarations that match an alias key and name
\* a registered workspace library
AliasAndLibrary ==
  { s \in UNION { { r.spec : r \in RefSet(f) } : f \in FileSet } :
      IsAliasSpec(s) /\ HasWorkspaceLib(GetWorkspaceLibraries, s) }

\* the specifiers naming a library in the declarations of the walked modules
LibrarySpecsSeen ==
  { r.spec : r \in { q \in UNION { RefSet(f) : f \in WalkedModules } :
                       /\ IsDeclaration(q)
                       /\ HasWorkspaceLib(GetWorkspaceLibraries, q.spec) } }

\* C24: a specifier that matches an alias key and names a registered library
\* is recorded in internalAliasImports only, and the library's files are not
\* walked on its account: none is in internalImports or externalImports, a
\* run that ends has those an entry module declares in internalAliasImports,
\* and a library file is walked only if a walked module names a library with
\* a specifier that matches no alias key.
C24_AliasBeforeLibrary ==
  (pc \in {"walk", "done"}) =>
    /\ \A s \in internalImports \cup DOMAIN externalImports :
         ~(IsAliasSpec(s) /\ HasWorkspaceLib(GetWorkspaceLibraries, s))
    /\ pc = "done" =>
         \A f \in EntryModules : \A r \in RefSet(f) :
           (IsDeclaration(r) /\ r.spec \in AliasAndLibrary)
             => r.spec \in internalAliasImports
    /\ (\E f \in FileSet : f.path \in walked /\ InGlob(RootL, f.path)) =>
         ~(LibrarySpecsSeen \subseteq AliasAndLibrary)

\* a finished run on a tree with the alias key '@l/*' and the library l, in
\* which a.ts imported '@l/u' and the library's file i.ts was not walked
C24_Witness ==
  /\ pc = "done"
  /\ SpLibU \in AliasAndLibrary
  /\ SpLibU \in internalAliasImports
  /\ \E f \in FileSet : f.path = FileI
  /\ FileI \notin walked

\* the alias patterns a specifier matches: its wildcard-stripped prefix is the
\* specifier or a leading run of its segments
PatternMatches(table, spec) ==
  { i \in 1..Len(table) :
      \/ spec = AliasPrefix(table[i].key)
      \/ StartsWith(spec, AliasPrefix(table[i].key) \o <<"/">>) }

\* C25: the alias entry used to resolve a specifier recorded as an alias
\* import is a most specific one among the patterns it matches (the longest
\* wildcard-stripped prefix), and the first declared among those.
C25_MostSpecificAlias ==
  \A s \in internalAliasImports :
    \A i \in PatternMatches(paths, s) :
      LET chosen == MatchingAlias(paths, s)
      IN /\ Len(AliasPrefix(paths[i].key)) <= Len(AliasPrefix(chosen.key))
         /\ Len(AliasPrefix(paths[i].key)) = Len(AliasPrefix(chosen.key))
              => \A j \in 1..Len(paths) : paths[j] = chosen => j <= i

\* the configuration layers of the tree, the discovered ones among them, and
\* the layer a layer names with extends
Layers == { world.tsconfigs[i] : i \in 1..Len(world.tsconfigs) }
Discovered ==
  { c \in Layers :
      \E i \in 1..Len(FindAllTsConfigFiles(ProjectOf(world.projectName).root)) :
        FindAllTsConfigFiles(ProjectOf(world.projectName).root)[i] = c.path }
Extended(c) ==
  { b \in Layers :
      c.extends # NoExtends /\ b.path = PathJoin(PathDirname(c.path), c.extends) }

\* a run that has merged its configuration layers
Merged == pc \in {"walk", "done"} /\ HasProject(world.projectName)

\* C26: when a discovered layer and the layer it extends define the same
\* alias key, the target the merged table resolves that key with is the one
\* of the extending layer.
C26_LocalOverridesInherited ==
  Merged =>
    \A c \in Discovered : \A b \in Extended(c) :
      \A i \in 1..Len(c.paths) : \A j \in 1..Len(b.paths) :
        (c.parses /\ b.parses /\ c.paths[i].key = b.paths[j].key) =>
          \A k \in 1..Len(paths) :
            paths[k].key = c.paths[i].key =>
              paths[k].targets[1] =
                PathResolve(PathDirname(c.path), c.paths[i].targets[1])

\* the layers reachable from a set of layers through extends
RECURSIVE ExtendsClosure(_)
ExtendsClosure(cs) ==
  LET more == cs \cup UNION { Extended(c) : c \in cs }
  IN IF more = cs THEN cs ELSE ExtendsClosure(more)

\* the merged table has an entry under every alias key of layer c, with the
\* layer's targets for it
Contributes(c) ==
  \A j \in 1..Len(c.paths) :
    \E k \in 1..Len(paths) :
      /\ paths[k].key = c.paths[j].key
      /\ \A t \in 1..Len(c.paths[j].targets) :
           \E u \in 1..Len(paths[k].targets) :
             paths[k].targets[u] =
               PathResolve(PathDirname(c.path), c.paths[j].targets[t])

\* C27: the merged alias table has the entries of every layer reachable
\* through extends, over any number of steps, from a discovered layer.
C27_ExtendsChainMerged ==
  (Merged /\ \A c \in Layers : c.parses) =>
    \A c \in ExtendsClosure(Discovered) : Contributes(c)

\* C28: when a discovered configuration file does not parse, the run goes on
\* and every discovered layer that does parse, also one that extends the
\* unparseable file, has its own entries in the merged table.
C28_UnparseableLayerOnly ==
  (/\ pc # "init"
   /\ HasProject(world.projectName)
   /\ FindPackageJson(ProjectOf(world.projectName).root).exists
   /\ \E c \in Discovered : ~c.parses) =>
    /\ error.msg # "tsconfig file not found or not parsed"
    /\ \A c \in Discovered : c.parses => Contributes(c)

\* C29: a call of analyzeImport at a depth above MAX_RECURSION_DEPTH records
\* nothing, adds no path-key, raises no error and leaves its caller's loop at
\* the next sibling; a nested call runs at its caller's depth plus one.
C29_DepthBound ==
  [][ (pc = "walk" /\ Len(stack) > 0) =>
        /\ (Len(Head(stack).todo) > 0 /\ Head(stack).depth > MAX_RECURSION_DEPTH) =>
             /\ externalImports' = externalImports
             /\ internalImports' = internalImports
             /\ internalAliasImports' = internalAliasImports
             /\ analyzedPaths' = analyzedPaths
             /\ pc' = "walk"
             /\ error' = error
             /\ stack' = <<[Head(stack) EXCEPT !.todo = Tail(@)]>> \o Tail(stack)
        /\ (Len(stack') = Len(stack) + 1) =>
             Head(stack').depth = Head(stack).depth + 1 ]_vars

\* the walk of the chain after the first of the two imports of its last
\* module was reached at depth MAX_RECURSION_DEPTH + 1 and skipped: its
\* sibling is next and nothing is recorded
C29_Witness ==
  /\ pc = "walk"
  /\ world = ChainWorld
  /\ Len(stack) = MAX_RECURSION_DEPTH + 2
  /\ Head(stack).depth = MAX_RECURSION_DEPTH + 1
  /\ Len(Head(stack).todo) = 1
  /\ Head(Head(stack).todo).spec = SpY
  /\ DOMAIN externalImports = {}
  /\ error = NoError

\* C30: during a run the visited set only grows; a call that enters the loops
\* of the module its specifier resolves to has put its path-key into the set;
\* and a call that classifies its specifier (records it, follows it or
\* throws) finds its path-key absent and leaves it present, so that no
\* path-key is processed twice.
C30_VisitedOnce ==
  [][ pc = "walk" =>
        /\ analyzedPaths \subseteq analyzedPaths'
        /\ (Len(stack) > 0 /\ Len(Head(stack).todo) > 0) =>
             LET key == FullPath(Head(Head(stack).todo))
             IN /\ Len(stack') = Len(stack) + 1 => key \in analyzedPaths'
                /\ (\/ externalImports' # externalImports
                    \/ internalImports' # internalImports
                    \/ internalAliasImports' # internalAliasImports
                    \/ Len(stack') # Len(stack)
                    \/ pc' = "failed") =>
                     key \notin analyzedPaths /\ key \in analyzedPaths' ]_vars

\* a.ts imports '@a/b', b.ts imports '@a/a': the walk is in the loops of a.ts
\* two levels down, where the import of '@a/b' was met again and skipped
C30_Witness ==
  /\ pc = "walk"
  /\ Len(stack) = 3
  /\ Head(stack).depth = 2
  /\ Head(stack).todo = <<>>
  /\ world.files[1].refs = <<Ref(SpAliasB, "import", {"u"})>>
  /\ analyzedPaths = { PathResolve(PathDirname(FileA), SpAliasB),
                       PathResolve(PathDirname(FileB), SpAliasA) }
  /\ internalAliasImports = {SpAliasA, SpAliasB}

\* the specifiers in internalImports naming the library that spec names: each
\* was recorded by a call that loaded that library's source files
ExpandedFor(spec) ==
  { s \in internalImports :
      /\ HasWorkspaceLib(GetWorkspaceLibraries, s)
      /\ WorkspaceLib(GetWorkspaceLibraries, s)
           = WorkspaceLib(GetWorkspaceLibraries, spec) }

\* C31: a call that loads a workspace library's source files and enters the
\* loops over them is made only when no earlier call of the run has loaded
\* that library.
C31_LibraryExpandedOnce ==
  [][ (/\ pc = "walk" /\ Len(stack) > 0 /\ Len(Head(stack).todo) > 0
       /\ Len(stack') = Len(stack) + 1
       /\ Head(stack').catch) =>
        ExpandedFor(Head(Head(stack).todo).spec) = {} ]_vars

\* C32: a package that a module of the project imports with a default or
\* namespace binding only has a non-empty binding set in externalImports.
C32_DefaultImportMarked ==
  pc = "done" =>
    \A f \in EntryModules : \A r \in RefSet(f) :
      (r.kind = "default" /\ r.spec \in DOMAIN externalImports) =>
        externalImports[r.spec] # {}

\* the test files of the tree and the specifiers that only test files import
IsTestFile(path) ==
  \/ EndsWith(path, <<".", "s", "p", "e", "c">> \o DotTs)
  \/ EndsWith(path, <<".", "t", "e", "s", "t">> \o DotTs)
  \/ EndsWith(path, <<".", "s", "p", "e", "c">> \o DotTsx)
  \/ EndsWith(path, <<".", "t", "e", "s", "t">> \o DotTsx)
TestOnly ==
  { s \in UNION { { r.spec : r \in RefSet(f) } : f \in { g \in FileSet : IsTestFile(g.path) } } :
      \A f \in FileSet : \A r \in RefSet(f) : r.spec = s => IsTestFile(f.path) }

\* C33: a package imported only from test files of the project or of a
\* workspace library is never a key of externalImports and is not in the
\* report's dependencies or devDependencies; no test file is walked.
C33_TestFilesNotAnalysed ==
  /\ \A s \in TestOnly : s \notin DOMAIN externalImports
  /\ \A path \in walked : ~IsTestFile(path)
  /\ (pc = "done" /\ Len(written) > 0) =>
       \A s \in TestOnly :
         /\ s \notin DOMAIN Report.dependencies
         /\ s \notin DOMAIN Report.devDependencies

\* a finished run on a tree where a.spec.ts imports the declared package z
\* and i.test.tsx the declared package y, a.ts imported './a.spec' and the
\* library l, and the library's file i.ts was walked
C33_Witness ==
  /\ pc = "done"
  /\ TestOnly = {SpZ, SpY}
  /\ Declared(SpZ)
  /\ FileI \in walked
  /\ SpLibU \in internalImports
  /\ \E f \in EntryModules : \E r \in RefSet(f) : r.spec = SpDotSpec

\* the tree paths of the manifests, the configuration files and the source
\* files
InputPaths ==
  { PathJoin(world.projects[i].root,
             <<"p", "a", "c", "k", "a", "g", "e", ".", "j", "s", "o", "n">>) :
      i \in 1..Len(world.projects) }
    \cup {<<"p", "a", "c", "k", "a", "g", "e", ".", "j", "s", "o", "n">>}
    \cup { c.path : c \in { world.tsconfigs[i] : i \in 1..Len(world.tsconfigs) } }
    \cup { TreePath(Slice(f.path, Len(Cwd))) : f \in FileSet }

C35_NoSharedVisitedKey ==
  pc = "done" =>
    \A f \in EntryModules : \A r \in RefSet(f) : \A q \in RefSet(f) :
      (/\ r.kind = "import" /\ q.kind = "import"
       /\ StartsWith(r.spec, <<".">>)
       /\ ~StartsWith(q.spec, <<".">>) /\ ~StartsWith(q.spec, <<"@">>)
       /\ PathResolve(PathDirname(f.path), r.spec)
            = PathResolve(PathDirname(f.path), q.spec)) =>
        q.spec \in DOMAIN externalImports

\* C36: a specifier that is the only declaration of a module of the project,
\* that neither equals the wildcard-stripped prefix of an alias key nor
\* continues it with '/', and that names no workspace library, is not an
\* alias import: a run that ends has it as a key of externalImports and not
\* in internalAliasImports.
C36_AliasNeedsSegmentBoundary ==
  pc = "done" =>
    \A f \in EntryModules : \A r \in RefSet(f) :
      (/\ r.kind = "import"
       /\ StartsWith(r.spec, <<"@">>)
       /\ PatternMatches(paths, r.spec) = {}
       /\ ~HasWorkspaceLib(GetWorkspaceLibraries, r.spec)
       /\ Len(f.refs) = 1) =>
        /\ r.spec \notin internalAliasImports
        /\ r.spec \in DOMAIN externalImports

\* C37: the reports of runs on one module graph enumerated in different
\* orders have the same dependencies, the same devDependencies and the same
\* externalImports, keys and binding sets.
C37_OrderIndependent ==
  \A i, j \in 1..Len(written) :
    /\ written[i].content.dependencies = written[j].content.dependencies
    /\ written[i].content.devDependencies = written[j].content.devDependencies
    /\ written[i].content.analysis.externalImports
         = written[j].content.analysis.externalImports

\* a tree path that a later run reads: a package.json, a file that
\* findAllTsConfigFiles takes for a configuration file, or a source file
ReadByRun(path) ==
  \/ Basename(path) = <<"p", "a", "c", "k", "a", "g", "e", ".", "j", "s", "o", "n">>
  \/ IsTsConfigName(Basename(path))
  \/ EndsWith(path, DotTs) \/ EndsWith(path, DotTsx)

\* C38: while the tree is otherwise unchanged, the reports written by runs
\* on the same project are the same, and no report is at a path that a run
\* reads its manifest, its configuration or its source files from.
C38_RepeatedRunSameReport ==
  world.pkgProject = Manifest1 =>
    /\ \A i \in 1..Len(written) : ~ReadByRun(written[i].path)
    /\ \A i, j \in 1..Len(written) :
         written[i].path = written[j].path =>
           written[i].content = written[j].content

\* two runs in a row on the project p, nothing edited in between, each
\* with its report written and with x among the reported dependencies
C38_Witness ==
  /\ world.pkgProject = Manifest1
  /\ Len(written) >= 2
  /\ written[1].path = written[2].path
  /\ written[2].by.run = written[1].by.run + 1
  /\ SpX \in DOMAIN written[2].content.dependencies
  /\ pc = "done"
====
